---------------------------- MODULE Spec2Model ----------------------------
(***************************************************************************)
(* LogicAudio: the App component (src/unnamed/part_003), the TrackDeck     *)
(* component and the bpm / loudness utilities (src/unnamed/part_000) as a  *)
(* state machine.                                                          *)
(*                                                                         *)
(* Units.  Times are integers in centiseconds (0.01 s), so the drift       *)
(* threshold 0.04 s is 4 and the timers of 10 ms and 100 ms are events.    *)
(* Crossfade is in hundredths (the slider's step is 0.01), gains are in    *)
(* thousandths (UnitGain = 1.0), volumes are in hundred-thousandths        *)
(* (crossfade * gain).  Loudness is in whole dB.                           *)
(*                                                                         *)
(* React.  A handler is one action; the effects its state change triggers  *)
(* (the auto-gain effect, the volume effect, TrackDeck's load effect) run  *)
(* in the same action.  A TrackDeck registers its 'ready' and 'timeupdate' *)
(* listeners once, in an effect whose dependencies never change            *)
(* (part_000:403-447), so the listeners call the onReady / onTimeUpdate    *)
(* props of the render that mounted the deck: the values those closures    *)
(* read from App's state are the values at mount (cbTrackA, cbIsPlaying,   *)
(* cbInterval), while refs and state setters are current.                  *)
(***************************************************************************)
EXTENDS Integers, Sequences, FiniteSets, TLC

(* ------------------------------ bounds -------------------------------- *)
\* uploads into the analyzer slot C
MaxLoads == 2
\* uploads into each of the comparator slots A and B
MaxDeckLoads == 2
\* filter renders started in one run
MaxRenders == 3
\* files that can be dropped on decks A and B
NumFiles == 2
\* pending duration timers of handleTabChange
MaxDurTimers == 1
\* pending guard timers of each kind
MaxGuardTimers == 1
\* playback ticks in one run
MaxTicks == 2
\* tab changes in one run
MaxTabChanges == 2
\* files added to the genre analyzer
MaxGenreFiles == 3
\* length of a window given to detectBpmInChunk, in envelope values
MaxEnvelope == 5
\* channels of an audio buffer
MaxChannels == 2
\* length of an audio buffer, in strides
MaxStrides == 2
\* windows analyzeBpmFromData is followed through in one call
MaxWindows == 8
\* samples per second of the filtered signal
SampleRate == 4
\* seeks of one drag of the ruler whose 100 ms timers are pending together
MaxDragSeeks == 2
\* seek positions: progress is k / SeekSteps, k in 0..SeekSteps
SeekSteps == 2
\* durations (centiseconds) of odd- and even-numbered tracks
DurOdd == 2000
DurEven == 3000

(* -------------------------- program constants ------------------------- *)
\* part_003:75  trackGains {A: 1, B: 1}: gain 1.0 in thousandths
UnitGain == 1000
\* part_003:70  crossfade 0.5, in hundredths
InitCrossfade == 50
\* part_003:518 drift threshold 0.04 s, in centiseconds
DriftThreshold == 4
\* part_000:230 auto interval 0 -> 30 s steps
AutoStep == 30
\* part_000:161 loudness floor in dB
LoudnessFloor == -100
\* part_000:139 every 1000th sample is read
Stride == 1000
\* part_000:161 rms below 0.00001 is silence; in millionths
RmsFloor == 10
\* part_000:272 samples per value of the envelope
DownsampleRatio == 256
\* part_000:306 maxWeightedCorr before the search
InitialCorr == -1
\* part_000:234 minimum window of 30 s
MinWindow == 30
\* part_000:241 segments shorter than 5 s are skipped
MinSegment == 5
\* part_000:299-300 bpm range of the estimator
MinBpm == 55
MaxBpm == 190
\* Mixer.tsx:149 (max="1"): crossfade 1.0, in hundredths
CrossfadeOne == 100
\* media.volume = 1 (part_003:358) and setVolume(1) (part_003:397), in volume units
FullVolume == CrossfadeOne * UnitGain

Tabs == {"comparator", "analyzer", "genre"}
Slots == {"A", "B", "C"}
Decks == {"A", "B", "GA", "GB", "C"}
Ghosts == {"GA", "GB"}
\* GenreAnalyzer.tsx:382 INTERVAL_OPTIONS (the integer ones used here)
IntervalOptions == {0, 10, 30}

\* The track slot a deck shows (part_003:621-698: the ghosts show A and B).
SlotOf(d) == CASE d = "GA" -> "A" [] d = "GB" -> "B" [] OTHER -> d
\* The tab that renders a deck (part_003:614-725).
TabOf(d) == IF d = "C" THEN "analyzer" ELSE "comparator"

TrackDuration(t) == IF t = 0 THEN 0 ELSE IF t % 2 = 1 THEN DurOdd ELSE DurEven
\* measured loudness (dB) of the decoded buffer of track t
TrackLoudness(t) == IF t = 0 THEN LoudnessFloor ELSE IF t % 2 = 1 THEN -10 ELSE -16

Max(a, b) == IF a >= b THEN a ELSE b
Min(a, b) == IF a <= b THEN a ELSE b
Abs(x) == IF x < 0 THEN -x ELSE x

VARIABLES
  activeTab,      \* part_003:29
  track,          \* part_003:40-44 trackA/B/C: 0 = null, else the track's id
  nLoads,         \* uploads made so far per slot (bound)
  deckLoading,    \* per deck: the track its wavesurfer is decoding, 0 = none
  deckDecoded,    \* per deck: getDecodedData() of the mounted wavesurfer
  deadDecoded,    \* per deck: getDecodedData() of the destroyed instance a ref still holds
  wsRef,          \* part_003:78-82 (and wsInstanceA/B/C, set with them): none | live | dead
  audio,          \* per deck: [volume, graph, gain] of the mounted wavesurfer
  deckTime,       \* per deck: getCurrentTime()
  deckPlaying,    \* per deck: isPlaying()
  bpmData,        \* part_003:45
  isAnalyzing,    \* part_003:46
  bpmInterval,    \* part_003:47
  filteredCache,  \* part_003:95  0 = null, else the track whose filtered signal it holds
  renders,        \* filterAudioBuffer promises not settled yet
  nRenders,       \* filterAudioBuffer calls so far
  isPlaying,      \* part_003:67
  currentTime,    \* part_003:68
  duration,       \* part_003:69
  crossfade,      \* part_003:70
  autoGain,       \* part_003:73
  isDiffMode,     \* part_003:74
  trackGains,     \* part_003:75
  isSeekingRef,   \* part_003:98
  isSyncingRef,   \* part_003:99
  seekTimers,     \* pending setTimeout(100) of handleSeek
  syncTimers,     \* pending setTimeout(10) of handleTimeUpdate
  durTimers,      \* pending setTimeout(100) of handleTabChange, oldest first
  cbTrackA,       \* trackA != null in the render that mounted decks A and B
  cbIsPlaying,    \* isPlaying in the render that mounted decks A and B
  cbInterval,     \* bpmInterval in the render that mounted deck C
  nTicks,         \* playback ticks so far (bound)
  nTabs,          \* tab changes so far (bound)
  setTimeCalls,   \* history: setTime calls the last handler made, per deck
  timeUpdated,    \* history: the last handler was handleTimeUpdate
  stopped,        \* history: the last handler was handleStop
  dbIn,           \* auto-gain resolver: the two loudness inputs
  gainOut,        \* auto-gain resolver: the computed gain pair
  analysis,       \* one call of analyzeBpmFromData: its arguments, loop variable and result
  meter,          \* one call of calculateTrackLoudness: its buffer and result
  genre,          \* genre analyzer: genreTracks and the decodes and AI calls in flight
  chunk           \* one call of detectBpmInChunk: its window, sample rate and result




viewVars == <<activeTab, nTabs>>
trackVars == <<track, nLoads>>
deckVars == <<deckLoading, deckDecoded, deadDecoded, wsRef>>
transportVars == <<deckTime, deckPlaying, nTicks>>
analyzerVars == <<bpmData, isAnalyzing, bpmInterval, filteredCache, renders, nRenders>>
playVars == <<isPlaying, currentTime, duration>>
mixVars == <<crossfade, autoGain, isDiffMode, trackGains>>
guardVars == <<isSeekingRef, isSyncingRef, seekTimers, syncTimers>>
cbVars == <<cbTrackA, cbIsPlaying, cbInterval>>
resolverVars == <<dbIn, gainOut>>

vars == <<viewVars, trackVars, deckVars, audio, transportVars, analyzerVars, playVars,
          mixVars, guardVars, durTimers, cbVars, setTimeCalls, timeUpdated, stopped,
          resolverVars, analysis, meter, genre, chunk>>

NoCalls == [d \in Decks |-> 0]

\* The tempo timeline analyzeBpmFromData returns for a filtered track and an
\* interval, by the inputs that determine it (part_000:226-261).
NoData == [src |-> 0, step |-> 0]
Timeline(t, interval) == [src |-> t, step |-> IF interval = 0 THEN AutoStep ELSE interval]

\* A new wavesurfer without the ws.setVolume(0) of part_000:427: wavesurfer's
\* default volume.
AudibleAudio == [volume |-> FullVolume, graph |-> FALSE, gain |-> 0]

\* A new wavesurfer (part_000:409-427): created, then ws.setVolume(0).
FreshAudio == [volume |-> 0, graph |-> FALSE, gain |-> 0]


(* ---------------------- auto-gain and volume effects ------------------ *)

RECURSIVE Pow10(_)
Pow10(n) == IF n <= 0 THEN 1 ELSE 10 * Pow10(n - 1)

\* 10^(r/20) in thousandths for r = 0..19 (rounded)
RootTable == <<1000, 1122, 1259, 1413, 1585, 1778, 1995, 2239, 2512, 2818,
               3162, 3548, 3981, 4467, 5012, 5623, 6310, 7079, 7943, 8913>>

\* Math.pow(10, d / 20) in thousandths, d in whole dB (part_003:299-300):
\* 10^(d/20) = 10^q * 10^(r/20) with d = 20 q + r, 0 <= r < 20.
PowDb(d) ==
  LET q == d \div 20
      r == d % 20
  IN IF q >= 0 THEN RootTable[r + 1] * Pow10(q)
               ELSE RootTable[r + 1] \div Pow10(-q)

\* The gain pair with the louder track as the target (Math.max for the
\* Math.min of part_003:296).
ResolveGainsToLouder(dbA, dbB) ==
  LET target == Max(dbA, dbB)
  IN [A |-> PowDb(target - dbA), B |-> PowDb(target - dbB)]

\* The gain pair of the auto-gain effect for two loudness values (part_003:296-302).
ResolveGains(dbA, dbB) ==
  LET target == Min(dbA, dbB)
  IN [A |-> PowDb(target - dbA), B |-> PowDb(target - dbB)]

\* getDecodedData() of the instance a ref points to: the mounted wavesurfer's
\* buffer, or the buffer a destroyed instance still holds.
RefBuffer(refs, decoded, dead, d) ==
  CASE refs[d] = "live" -> decoded[d]
    [] refs[d] = "dead" -> dead[d]
    [] OTHER -> 0

\* The auto-gain effect (part_003:281-304), run when wsInstanceA or wsInstanceB
\* changed: the new trackGains.
GainEffect(gains, refs, decoded, dead) ==
  IF refs["A"] = "none" \/ refs["B"] = "none"
    THEN [A |-> UnitGain, B |-> UnitGain]
    ELSE LET bufA == RefBuffer(refs, decoded, dead, "A")
             bufB == RefBuffer(refs, decoded, dead, "B")
         IN IF bufA = 0 \/ bufB = 0
              THEN gains
              ELSE ResolveGains(TrackLoudness(bufA), TrackLoudness(bufB))

\* ws.setVolume(v) (part_003:360, 392-397, part_000:427)
SetVolume(a, v) == [a EXCEPT !.volume = v]

\* applyVolumeAndPhase without the upgrade to Web Audio (part_003:329-345 left
\* out): the volume always goes to the media element.
ApplyVolumeNoUpgrade(a, volume, phase, forceGraph) ==
  IF a.graph
    THEN [volume |-> FullVolume, graph |-> TRUE, gain |-> volume * phase]
    ELSE SetVolume(a, volume)

\* applyVolumeAndPhase with a gain node that keeps an inverted phase once it
\* has one (part_003:352 with the sign of the old gain instead of phase).
ApplyVolumeStickyPhase(a, volume, phase, forceGraph) ==
  LET upgrade == (forceGraph \/ phase = -1) /\ ~a.graph
      graph == a.graph \/ upgrade
      sign == IF a.graph /\ a.gain < 0 THEN -1 ELSE phase
  IN IF graph
       THEN [volume |-> FullVolume, graph |-> TRUE, gain |-> volume * sign]
       ELSE SetVolume(a, volume)

\* applyVolumeAndPhase with a graph that is used only for the calls that ask
\* for it (part_003:347 testing forceGraph and phase, not instance._audioGraph).
ApplyVolumeGraphOnDemand(a, volume, phase, forceGraph) ==
  IF forceGraph \/ phase = -1
    THEN [volume |-> FullVolume, graph |-> TRUE, gain |-> volume * phase]
    ELSE [volume |-> volume, graph |-> FALSE, gain |-> 0]

\* applyVolumeAndPhase on the audio state a of one wavesurfer (part_003:309-364).
\* createMediaElementSource throws only for an element that already has a
\* source; the element is the instance's own and gets its source here, so the
\* attempt succeeds exactly when the instance has no _audioGraph yet.
ApplyVolumeAndPhase(a, volume, phase, forceGraph) ==
  LET upgrade == (forceGraph \/ phase = -1) /\ ~a.graph
      graph == a.graph \/ upgrade
  IN IF graph
       THEN [volume |-> FullVolume, graph |-> TRUE, gain |-> volume * phase]
       ELSE SetVolume(a, volume)

\* The volume effect (part_003:367-399): the audio state of every deck after it,
\* given the refs and the state of the render it runs in.  A ref that holds a
\* destroyed instance changes nothing on the mounted deck.
VolumeEffect(au, tab, refs, cf, ag, gains, diff) ==
  LET gA == IF ag THEN gains.A ELSE UnitGain
      gB == IF ag THEN gains.B ELSE UnitGain
  IN [d \in Decks |->
       IF refs[d] # "live" THEN au[d]
       ELSE IF tab = "comparator" THEN
              CASE d = "A" -> IF diff THEN ApplyVolumeAndPhase(au[d], CrossfadeOne * gA, 1, TRUE)
                                      ELSE ApplyVolumeAndPhase(au[d], (CrossfadeOne - cf) * gA, 1, FALSE)
                [] d = "B" -> IF diff THEN ApplyVolumeAndPhase(au[d], CrossfadeOne * gB, -1, TRUE)
                                      ELSE ApplyVolumeAndPhase(au[d], cf * gB, 1, FALSE)
                [] d \in Ghosts -> SetVolume(au[d], 0)
                [] OTHER -> au[d]
       ELSE IF tab = "analyzer" /\ d = "C" THEN SetVolume(au[d], FullVolume)
       ELSE au[d]]

\* What a deck sends to the output: the gain node's signed gain once routed
\* (the media element is then at full volume), else the element's volume.
OutVolume(a) == IF a.graph THEN Abs(a.gain) ELSE a.volume
OutPhase(a) == IF a.graph /\ a.gain < 0 THEN -1 ELSE 1

\* No call of analyzeBpmFromData under way.
IdleAnalysis ==
  [duration |-> 0, interval |-> 0, startTime |-> 0, points |-> <<>>, windows |-> <<>>,
   pc |-> "idle"]

\* No call of calculateTrackLoudness under way.
IdleMeter == [buffer |-> <<>>, result |-> 0, pc |-> "idle"]

\* The genre analyzer before any file is added (part_003:50).
IdleGenre == [tracks |-> <<>>, decodes |-> {}, aiCalls |-> {}, nAdded |-> 0]

\* No call of detectBpmInChunk under way.
IdleChunk == [data |-> <<>>, sampleRate |-> 0, result |-> 0, pc |-> "idle"]

(* ------------------------------- Init --------------------------------- *)
\* The state after App's first render, without the resolver's inputs.
InitApp ==
  /\ activeTab = "comparator"
  /\ nTabs = 0
  /\ track = [s \in Slots |-> 0]
  /\ nLoads = [s \in Slots |-> 0]
  /\ deckLoading = [d \in Decks |-> 0]
  /\ deckDecoded = [d \in Decks |-> 0]
  /\ deadDecoded = [d \in Decks |-> 0]
  /\ wsRef = [d \in Decks |-> "none"]
  /\ audio = [d \in Decks |-> FreshAudio]
  /\ deckTime = [d \in Decks |-> 0]
  /\ deckPlaying = [d \in Decks |-> FALSE]
  /\ nTicks = 0
  /\ bpmData = NoData
  /\ isAnalyzing = FALSE
  /\ bpmInterval = 0
  /\ filteredCache = 0
  /\ renders = {}
  /\ nRenders = 0
  /\ isPlaying = FALSE
  /\ currentTime = 0
  /\ duration = 0
  /\ crossfade = InitCrossfade
  /\ autoGain = FALSE
  /\ isDiffMode = FALSE
  /\ trackGains = [A |-> UnitGain, B |-> UnitGain]
  /\ isSeekingRef = FALSE
  /\ isSyncingRef = FALSE
  /\ seekTimers = 0
  /\ syncTimers = 0
  /\ durTimers = <<>>
  /\ cbTrackA = FALSE
  /\ cbIsPlaying = FALSE
  /\ cbInterval = 0
  /\ setTimeCalls = NoCalls
  /\ timeUpdated = FALSE
  /\ stopped = FALSE

Init ==
  /\ InitApp
  /\ dbIn = [A |-> 0, B |-> 0]
  /\ gainOut = [A |-> UnitGain, B |-> UnitGain]
  /\ chunk = IdleChunk
  /\ genre = IdleGenre
  /\ meter = IdleMeter
  /\ analysis = IdleAnalysis

(* ------------------------- tabs and track loads ----------------------- *)
\* getDuration() of the instance a ref points to (0 for a null ref).
RefDuration(d) == TrackDuration(RefBuffer(wsRef, deckDecoded, deadDecoded, d))

\* handleTabChange (part_003:185-202) with resetPlayback (part_003:176-183) and
\* the re-render: the decks of the tab left are destroyed (part_000:443-445),
\* the decks of the tab entered are created silent (part_000:409-427), start
\* loading their track (part_000:470-475) and capture the new render's handlers.
HandleTabChange(mode) ==
  LET switch == mode # activeTab
      out(d) == switch /\ TabOf(d) = activeTab
      in(d) == switch /\ TabOf(d) = mode
      refs == [d \in Decks |-> IF out(d) /\ wsRef[d] = "live" THEN "dead" ELSE wsRef[d]]
  IN /\ nTabs < MaxTabChanges
     /\ Len(durTimers) < MaxDurTimers
     /\ nTabs' = nTabs + 1
     /\ activeTab' = mode
     /\ isPlaying' = FALSE
     /\ currentTime' = 0
     /\ wsRef' = refs
     /\ deadDecoded' = [d \in Decks |->
                          IF out(d) /\ wsRef[d] = "live" THEN deckDecoded[d] ELSE deadDecoded[d]]
     /\ deckDecoded' = [d \in Decks |-> IF out(d) \/ in(d) THEN 0 ELSE deckDecoded[d]]
     /\ deckLoading' = [d \in Decks |->
                          IF out(d) THEN 0
                          ELSE IF in(d) THEN track[SlotOf(d)]
                          ELSE deckLoading[d]]
     /\ audio' = VolumeEffect([d \in Decks |-> IF out(d) \/ in(d) THEN FreshAudio ELSE audio[d]],
                              mode, refs, crossfade, autoGain, trackGains, isDiffMode)
     /\ deckTime' = [d \in Decks |-> 0]
     /\ deckPlaying' = [d \in Decks |-> FALSE]
     /\ durTimers' = Append(durTimers, mode)
     /\ cbTrackA' = IF switch /\ mode = "comparator" THEN track["A"] # 0 ELSE cbTrackA
     /\ cbIsPlaying' = IF switch /\ mode = "comparator" THEN FALSE ELSE cbIsPlaying
     /\ cbInterval' = IF switch /\ mode = "analyzer" THEN bpmInterval ELSE cbInterval
     /\ setTimeCalls' = NoCalls
     /\ timeUpdated' = FALSE
     /\ stopped' = FALSE
     /\ UNCHANGED <<trackVars, nTicks, analyzerVars, duration, mixVars, guardVars, resolverVars, analysis, meter, genre, chunk>>

\* The timer of handleTabChange (part_003:189-201).
DurationTimerFire ==
  /\ durTimers # <<>>
  /\ LET mode == Head(durTimers)
     IN duration' = CASE mode = "comparator" -> Max(RefDuration("A"), RefDuration("B"))
                      [] mode = "analyzer" -> RefDuration("C")
                      [] OTHER -> 0
  /\ durTimers' = Tail(durTimers)
  /\ setTimeCalls' = NoCalls
  /\ timeUpdated' = FALSE
  /\ stopped' = FALSE
  /\ UNCHANGED <<viewVars, trackVars, deckVars, audio, transportVars, analyzerVars, isPlaying,
                 currentTime, mixVars, guardVars, cbVars, resolverVars, analysis, meter, genre, chunk>>

\* handleFileUpload (part_003:402-420) and the load effect of the decks that
\* show the slot (part_000:470-475): they start decoding the new track, and a
\* wavesurfer that loads has no decoded data, is paused and at time 0.
HandleFileUpload(id, f) ==
  LET loads(d) == SlotOf(d) = id /\ TabOf(d) = activeTab
  IN /\ activeTab = TabOf(id)
     /\ nLoads[id] < (IF id = "C" THEN MaxLoads ELSE MaxDeckLoads)
     /\ nLoads' = [nLoads EXCEPT ![id] = @ + 1]
     /\ track' = [track EXCEPT ![id] = f]
     /\ bpmData' = IF id = "C" THEN NoData ELSE bpmData
     /\ filteredCache' = IF id = "C" THEN 0 ELSE filteredCache
     /\ currentTime' = IF ~isPlaying THEN 0 ELSE currentTime
     /\ deckLoading' = [d \in Decks |-> IF loads(d) THEN f ELSE deckLoading[d]]
     /\ deckDecoded' = [d \in Decks |-> IF loads(d) THEN 0 ELSE deckDecoded[d]]
     /\ deckTime' = [d \in Decks |-> IF loads(d) THEN 0 ELSE deckTime[d]]
     /\ deckPlaying' = [d \in Decks |-> IF loads(d) THEN FALSE ELSE deckPlaying[d]]
     /\ setTimeCalls' = NoCalls
     /\ timeUpdated' = FALSE
     /\ stopped' = FALSE
     /\ UNCHANGED <<viewVars, deadDecoded, wsRef, audio, nTicks, isAnalyzing, bpmInterval,
                    renders, nRenders, isPlaying, duration, mixVars, guardVars, durTimers,
                    cbVars, resolverVars, analysis, meter, genre, chunk>>

\* The slot has had no upload yet: the runs that load each comparator deck once.
FirstLoad(id) == nLoads[id] = 0

(* ------------------------------ analyzer ------------------------------ *)
\* initialTrackAnalysis up to its await (part_003:208-213): the analyzing flag
\* is set, the timeline cleared and filterAudioBuffer's render started.  The
\* interval is the bpmInterval of the closure that runs, read after the await.
StartAnalysis(t, interval) ==
  /\ nRenders < MaxRenders
  /\ nRenders' = nRenders + 1
  /\ isAnalyzing' = TRUE
  /\ bpmData' = NoData
  /\ renders' = renders \cup {[id |-> nRenders + 1, track |-> t, interval |-> interval]}

\* The 'ready' event of a deck (part_000:431-434) and its onReady handler:
\* handleTrackReady for decks A, B and C (part_003:250-278), the inline handler
\* for the ghosts (part_003:665, 676); then the effects that depend on the
\* instance (part_003:304, 399) when the ref got a new instance.
DeckReady(d) ==
  LET t == deckLoading[d]
      decoded == [deckDecoded EXCEPT ![d] = t]
      refs == [wsRef EXCEPT ![d] = "live"]
      newInstance == wsRef[d] # "live"
      gains == IF newInstance /\ d \in {"A", "B"}
                 THEN GainEffect(trackGains, refs, decoded, deadDecoded)
                 ELSE trackGains
      silenced == IF d \in Ghosts THEN [audio EXCEPT ![d] = SetVolume(@, 0)] ELSE audio
  IN /\ t # 0
     /\ deckLoading' = [deckLoading EXCEPT ![d] = 0]
     /\ deckDecoded' = decoded
     /\ wsRef' = refs
     /\ trackGains' = gains
     /\ audio' = IF newInstance /\ d \notin Ghosts
                   THEN VolumeEffect(silenced, activeTab, refs, crossfade, autoGain, gains, isDiffMode)
                   ELSE silenced
     /\ duration' = IF d \in Ghosts THEN duration ELSE Max(duration, TrackDuration(t))
     /\ IF d = "C"
          THEN StartAnalysis(t, cbInterval)
          ELSE UNCHANGED <<bpmData, isAnalyzing, renders, nRenders>>
     /\ setTimeCalls' = NoCalls
     /\ timeUpdated' = FALSE
     /\ stopped' = FALSE
     /\ UNCHANGED <<viewVars, trackVars, deadDecoded, transportVars, bpmInterval, filteredCache,
                    isPlaying, currentTime, crossfade, autoGain, isDiffMode, guardVars,
                    durTimers, cbVars, resolverVars, analysis, meter, genre, chunk>>

\* The render of filterAudioBuffer resolves (part_003:213-224, 228-230).
RenderComplete(r) ==
  /\ r \in renders
  /\ renders' = renders \ {r}
  /\ filteredCache' = r.track
  /\ bpmData' = Timeline(r.track, r.interval)
  /\ isAnalyzing' = FALSE
  /\ setTimeCalls' = NoCalls
  /\ timeUpdated' = FALSE
  /\ stopped' = FALSE
  /\ UNCHANGED <<viewVars, trackVars, deckVars, audio, transportVars, bpmInterval, nRenders,
                 playVars, mixVars, guardVars, durTimers, cbVars, resolverVars, analysis, meter, genre, chunk>>

\* The render of filterAudioBuffer rejects (part_003:226-230).
RenderFail(r) ==
  /\ r \in renders
  /\ renders' = renders \ {r}
  /\ isAnalyzing' = FALSE
  /\ setTimeCalls' = NoCalls
  /\ timeUpdated' = FALSE
  /\ stopped' = FALSE
  /\ UNCHANGED <<viewVars, trackVars, deckVars, audio, transportVars, bpmData, bpmInterval,
                 filteredCache, nRenders, playVars, mixVars, guardVars, durTimers, cbVars,
                 resolverVars, analysis, meter, genre, chunk>>

\* handleBpmIntervalChange (part_003:233-248), called by the interval selector,
\* which is disabled without a track and while analyzing (GenreAnalyzer.tsx:489).
\* The fallback calls the initialTrackAnalysis of the same render, whose
\* bpmInterval is the one before this change.
HandleBpmIntervalChange(newInterval) ==
  LET buffer == RefBuffer(wsRef, deckDecoded, deadDecoded, "C")
  IN /\ activeTab = "analyzer"
     /\ track["C"] # 0
     /\ ~isAnalyzing
     /\ newInterval # bpmInterval
     /\ bpmInterval' = newInterval
     /\ IF filteredCache # 0
          THEN /\ bpmData' = Timeline(filteredCache, newInterval)
               /\ UNCHANGED <<isAnalyzing, renders, nRenders>>
          ELSE IF buffer # 0
                 THEN StartAnalysis(buffer, bpmInterval)
                 ELSE UNCHANGED <<bpmData, isAnalyzing, renders, nRenders>>
     /\ setTimeCalls' = NoCalls
     /\ timeUpdated' = FALSE
     /\ stopped' = FALSE
     /\ UNCHANGED <<viewVars, trackVars, deckVars, audio, transportVars, filteredCache,
                    playVars, mixVars, guardVars, durTimers, cbVars, resolverVars, analysis, meter, genre, chunk>>

\* The analyzer tab: loads of slot C, renders and interval changes.
NextAnalyzer ==
  \/ \E mode \in {"comparator", "analyzer"} : HandleTabChange(mode)
  \/ DurationTimerFire
  \/ HandleFileUpload("C", nLoads["C"] + 1)
  \/ DeckReady("C")
  \/ \E r \in renders : RenderComplete(r)
  \/ \E r \in renders : RenderFail(r)
  \/ \E i \in IntervalOptions : HandleBpmIntervalChange(i)

SpecAnalyzer == Init /\ [][NextAnalyzer]_vars

(* ------------------------------ transport ----------------------------- *)
\* activeInstances() (part_003:423-435) for a tab: the decks whose ref is set.
ActiveInstances(tab) ==
  CASE tab = "comparator" -> {d \in {"A", "B", "GA", "GB"} : wsRef[d] # "none"}
    [] tab = "analyzer" -> {d \in {"C"} : wsRef[d] # "none"}
    [] OTHER -> {}

\* The decks a call on the active instances reaches: a ref to a destroyed
\* instance is called too, and moves nothing that is mounted.
LiveInstances(tab) == {d \in ActiveInstances(tab) : wsRef[d] = "live"}

\* getDuration() / getCurrentTime() of a mounted deck.
DeckDuration(d) == TrackDuration(deckDecoded[d])
\* The position a media element takes when set to t: not beyond its end.
ClampTime(d, t) == Max(0, Min(t, DeckDuration(d)))

\* togglePlay (part_003:437-456) acting on the instances `active`: setTime and
\* play, or pause, on each of them.
TogglePlayOn(active) ==
  LET targetState == ~isPlaying
      instances == {d \in active : wsRef[d] = "live"}
  IN /\ activeTab # "genre"
     /\ isPlaying' = targetState
     /\ deckTime' = [d \in Decks |->
                       IF targetState /\ d \in instances THEN ClampTime(d, currentTime)
                       ELSE deckTime[d]]
     /\ deckPlaying' = [d \in Decks |-> IF d \in instances THEN targetState ELSE deckPlaying[d]]
     /\ setTimeCalls' = [d \in Decks |-> IF targetState /\ d \in active THEN 1 ELSE 0]
     /\ timeUpdated' = FALSE
     /\ stopped' = FALSE
     /\ UNCHANGED <<viewVars, trackVars, deckVars, audio, nTicks, analyzerVars, currentTime,
                    duration, mixVars, guardVars, durTimers, cbVars, resolverVars, analysis, meter, genre, chunk>>

\* togglePlay that leaves the ghost decks out (wsRefDiffA and wsRefDiffB
\* missing from part_003:426-431).
TogglePlayAudibleOnly == TogglePlayOn(ActiveInstances(activeTab) \ Ghosts)

\* togglePlay (part_003:437-456); the transport bar is not rendered in the
\* genre tab (part_003:758).
TogglePlay == TogglePlayOn(ActiveInstances(activeTab))

\* handleStop (part_003:458-462) with the decks rewound (ws.stop()) or only
\* halted where they are (ws.pause()).
StopWith(rewind) ==
  LET instances == LiveInstances(activeTab)
  IN /\ activeTab # "genre"
     /\ isPlaying' = FALSE
     /\ currentTime' = 0
     /\ deckTime' = [d \in Decks |-> IF rewind /\ d \in instances THEN 0 ELSE deckTime[d]]
     /\ deckPlaying' = [d \in Decks |-> IF d \in instances THEN FALSE ELSE deckPlaying[d]]
     /\ setTimeCalls' = NoCalls
     /\ timeUpdated' = FALSE
     /\ stopped' = TRUE
     /\ UNCHANGED <<viewVars, trackVars, deckVars, audio, nTicks, analyzerVars, duration,
                    mixVars, guardVars, durTimers, cbVars, resolverVars, analysis, meter, genre, chunk>>

\* handleStop that pauses the decks instead of stopping them (ws.pause() for
\* the ws.stop() of part_003:460).
HandleStopNoRewind == StopWith(FALSE)

\* handleStop (part_003:458-462)
HandleStop == StopWith(TRUE)

\* handleSeek (part_003:464-474) for progress = k / SeekSteps; seekTo(progress)
\* puts a deck at progress times its own duration.
SeekWithTimers(k, maxTimers) ==
  LET instances == LiveInstances(activeTab)
  IN /\ activeTab # "genre"
     /\ seekTimers < maxTimers
     /\ isSeekingRef' = TRUE
     /\ seekTimers' = seekTimers + 1
     /\ currentTime' = (k * duration) \div SeekSteps
     /\ deckTime' = [d \in Decks |->
                       IF d \in instances THEN (k * DeckDuration(d)) \div SeekSteps
                       ELSE deckTime[d]]
     /\ setTimeCalls' = NoCalls
     /\ timeUpdated' = FALSE
     /\ stopped' = FALSE
     /\ UNCHANGED <<viewVars, trackVars, deckVars, audio, deckPlaying, nTicks, analyzerVars,
                    isPlaying, duration, mixVars, isSyncingRef, syncTimers, durTimers, cbVars,
                    resolverVars, analysis, meter, genre, chunk>>

\* handleSeek while fewer than MaxGuardTimers of its timers are pending
HandleSeek(k) == SeekWithTimers(k, MaxGuardTimers)

\* The 100 ms timer of handleSeek (part_003:471-473); timers fire in the order
\* they were set, so the one that fires is the oldest pending.
SeekTimerFire ==
  /\ seekTimers > 0
  /\ seekTimers' = seekTimers - 1
  /\ isSeekingRef' = FALSE
  /\ setTimeCalls' = NoCalls
  /\ timeUpdated' = FALSE
  /\ stopped' = FALSE
  /\ UNCHANGED <<viewVars, trackVars, deckVars, audio, transportVars, analyzerVars, playVars,
                 mixVars, isSyncingRef, syncTimers, durTimers, cbVars, resolverVars, analysis, meter, genre, chunk>>

\* The 10 ms timer of handleTimeUpdate (part_003:524-526)
SyncTimerFire ==
  /\ syncTimers > 0
  /\ syncTimers' = syncTimers - 1
  /\ isSyncingRef' = FALSE
  /\ setTimeCalls' = NoCalls
  /\ timeUpdated' = FALSE
  /\ stopped' = FALSE
  /\ UNCHANGED <<viewVars, trackVars, deckVars, audio, transportVars, analyzerVars, playVars,
                 mixVars, isSeekingRef, seekTimers, durTimers, cbVars, resolverVars, analysis, meter, genre, chunk>>

\* A playing deck's media element advances by step centiseconds.
Tick(d, step) ==
  /\ nTicks < MaxTicks
  /\ deckPlaying[d]
  /\ deckDecoded[d] # 0
  /\ deckTime[d] + step <= DeckDuration(d)
  /\ nTicks' = nTicks + 1
  /\ deckTime' = [deckTime EXCEPT ![d] = @ + step]
  /\ setTimeCalls' = NoCalls
  /\ timeUpdated' = FALSE
  /\ stopped' = FALSE
  /\ UNCHANGED <<viewVars, trackVars, deckVars, audio, deckPlaying, analyzerVars, playVars,
                 mixVars, guardVars, durTimers, cbVars, resolverVars, analysis, meter, genre, chunk>>

\* getCurrentTime() of the instance a ref points to; a destroyed instance's
\* media element has been reset.
RefTime(d) == IF wsRef[d] = "live" THEN deckTime[d] ELSE 0

\* The slaves handleTimeUpdate corrects (part_003:513-522): the other active
\* instances whose time differs from the master's by more than 0.04 s.
Drifted(master, tab) ==
  {s \in ActiveInstances(tab) \ {master} : Abs(RefTime(master) - RefTime(s)) > DriftThreshold}

\* handleTimeUpdate (part_003:490-529) as deck `source` calls it on a
\* 'timeupdate' event (part_000:436-440) with its current time.  The listener
\* was registered when the deck mounted, so activeTab, trackA and isPlaying are
\* those of the mount render: the deck's own tab, cbTrackA and cbIsPlaying.
\* `seeking` is the value the handler reads from isSeekingRef (part_003:491).
TimeUpdate(source, seeking) ==
  LET time == deckTime[source]
      tab == TabOf(source)
      masterId == IF cbTrackA THEN "A" ELSE "B"
      passes == ~seeking /\ ~isSyncingRef
      setsTime == passes /\ (tab = "analyzer" \/ source = masterId)
      syncs == /\ passes
               /\ tab = "comparator"
               /\ source = masterId
               /\ cbIsPlaying
               /\ wsRef[source] # "none"
      slaves == IF syncs THEN Drifted(source, tab) ELSE {}
  IN /\ activeTab = tab
     /\ deckDecoded[source] # 0
     /\ currentTime' = IF setsTime THEN time ELSE currentTime
     /\ deckTime' = [d \in Decks |->
                       IF d \in slaves /\ wsRef[d] = "live" THEN ClampTime(d, RefTime(source))
                       ELSE deckTime[d]]
     /\ setTimeCalls' = [d \in Decks |-> IF d \in slaves THEN 1 ELSE 0]
     /\ timeUpdated' = TRUE
     /\ stopped' = FALSE
     /\ isSyncingRef' = (isSyncingRef \/ slaves # {})
     /\ syncTimers' = IF slaves # {} THEN syncTimers + 1 ELSE syncTimers
     /\ UNCHANGED <<viewVars, trackVars, deckVars, audio, deckPlaying, nTicks, analyzerVars,
                    isPlaying, duration, mixVars, isSeekingRef, seekTimers, durTimers, cbVars,
                    resolverVars, analysis, meter, genre, chunk>>

\* handleTimeUpdate without the check of the seeking guard (part_003:491 left out).
HandleTimeUpdateUnguarded(source) == TimeUpdate(source, FALSE)

\* handleTimeUpdate (part_003:490-529) with the guard it reads.
HandleTimeUpdate(source) == TimeUpdate(source, isSeekingRef)

\* The comparator tab's transport: loads of decks A and B, play, stop, seek,
\* playback and the decks' time updates.
NextSync ==
  \/ \E id \in {"A", "B"} : \E f \in 1..NumFiles : FirstLoad(id) /\ HandleFileUpload(id, f)
  \/ \E d \in {"A", "B", "GA", "GB"} : DeckReady(d)
  \/ TogglePlay
  \/ HandleStop
  \/ \E k \in 0..SeekSteps : HandleSeek(k)
  \/ SeekTimerFire
  \/ \E d \in {"A", "B", "GA", "GB"} : \E step \in {DriftThreshold, DriftThreshold + 1} : Tick(d, step)
  \/ \E source \in {"A", "B"} : HandleTimeUpdate(source)

SpecSync == Init /\ [][NextSync]_vars

\* The transport with the master's time updates arriving for as long as they
\* can and the 100 ms guard timers firing.
SpecSyncFair ==
  /\ SpecSync
  /\ WF_vars(\E source \in {"A", "B"} : HandleTimeUpdate(source))
  /\ WF_vars(SeekTimerFire)

\* Seeks that follow each other within 100 ms, as the mouse moves of a drag
\* on the ruler issue them (part_001:244-255), with the decks' loads and the
\* timers of the seeks.
NextDrag ==
  \/ \E id \in {"A", "B"} : \E f \in 1..NumFiles : FirstLoad(id) /\ HandleFileUpload(id, f)
  \/ \E d \in {"A", "B", "GA", "GB"} : DeckReady(d)
  \/ \E k \in 0..SeekSteps : SeekWithTimers(k, MaxDragSeeks)
  \/ SeekTimerFire

SpecDrag == Init /\ [][NextDrag]_vars

\* The comparator decks with replacement tracks and the ruler: loads of decks
\* A and B, more than one per deck, their ready events, and seeks.
NextReplace ==
  \/ \E id \in {"A", "B"} : \E f \in 1..NumFiles : HandleFileUpload(id, f)
  \/ \E d \in {"A", "B", "GA", "GB"} : DeckReady(d)
  \/ \E k \in 0..SeekSteps : HandleSeek(k)
  \/ SeekTimerFire

SpecReplace == Init /\ [][NextReplace]_vars

(* -------------------------------- mixer ------------------------------ *)
\* Positions of the crossfader (Mixer.tsx:146-152: 0..1 in steps of 0.01).
CrossfadeValues == {0, 25, InitCrossfade, CrossfadeOne}

\* handleCrossfadeChange (part_003:531-534) and the volume effect it triggers;
\* the crossfader is rendered in the comparator tab only (part_003:774).
HandleCrossfadeChange(value) ==
  /\ activeTab = "comparator"
  /\ value # crossfade
  /\ crossfade' = value
  /\ audio' = VolumeEffect(audio, activeTab, wsRef, value, autoGain, trackGains, isDiffMode)
  /\ setTimeCalls' = NoCalls
  /\ timeUpdated' = FALSE
  /\ stopped' = FALSE
  /\ UNCHANGED <<viewVars, trackVars, deckVars, transportVars, analyzerVars, playVars,
                 autoGain, isDiffMode, trackGains, guardVars, durTimers, cbVars, resolverVars, analysis, meter, genre, chunk>>

\* onToggleAutoGain (part_003:771) and the volume effect it triggers.
ToggleAutoGain ==
  /\ activeTab = "comparator"
  /\ autoGain' = ~autoGain
  /\ audio' = VolumeEffect(audio, activeTab, wsRef, crossfade, ~autoGain, trackGains, isDiffMode)
  /\ setTimeCalls' = NoCalls
  /\ timeUpdated' = FALSE
  /\ stopped' = FALSE
  /\ UNCHANGED <<viewVars, trackVars, deckVars, transportVars, analyzerVars, playVars,
                 crossfade, isDiffMode, trackGains, guardVars, durTimers, cbVars, resolverVars, analysis, meter, genre, chunk>>

\* onToggleDiffMode (part_003:773) and the volume effect it triggers.
ToggleDiffMode ==
  /\ activeTab = "comparator"
  /\ isDiffMode' = ~isDiffMode
  /\ audio' = VolumeEffect(audio, activeTab, wsRef, crossfade, autoGain, trackGains, ~isDiffMode)
  /\ setTimeCalls' = NoCalls
  /\ timeUpdated' = FALSE
  /\ stopped' = FALSE
  /\ UNCHANGED <<viewVars, trackVars, deckVars, transportVars, analyzerVars, playVars,
                 crossfade, autoGain, trackGains, guardVars, durTimers, cbVars, resolverVars, analysis, meter, genre, chunk>>

\* The comparator tab's mixer: loads of decks A and B, the three mixer
\* controls, play and stop, and leaving and re-entering the tab.
NextMix ==
  \/ \E mode \in {"comparator", "genre"} : HandleTabChange(mode)
  \/ DurationTimerFire
  \/ \E id \in {"A", "B"} : \E f \in 1..NumFiles : FirstLoad(id) /\ HandleFileUpload(id, f)
  \/ \E d \in {"A", "B", "GA", "GB"} : DeckReady(d)
  \/ \E value \in CrossfadeValues : HandleCrossfadeChange(value)
  \/ ToggleAutoGain
  \/ ToggleDiffMode
  \/ TogglePlay
  \/ HandleStop

SpecMix == Init /\ [][NextMix]_vars

(* ------------------------- auto-gain resolver ------------------------- *)
\* Loudness values calculateTrackLoudness can return (part_000:160-163): the
\* floor and levels up to full scale, in dB.
DbLevels == {LoudnessFloor, -60, -40, -23, -16, -12, -10, -6, -3, -1, 0}

\* The auto-gain effect's computation (part_003:293-302) on a pair of measured
\* loudness values.
AutoGainResolve ==
  /\ gainOut' = ResolveGains(dbIn.A, dbIn.B)
  /\ UNCHANGED <<viewVars, trackVars, deckVars, audio, transportVars, analyzerVars, playVars,
                 mixVars, guardVars, durTimers, cbVars, setTimeCalls, timeUpdated, stopped, dbIn, analysis, meter, genre, chunk>>

\* Two decoded buffers of any loudness.
InitGain ==
  /\ InitApp
  /\ dbIn \in [{"A", "B"} -> DbLevels]
  /\ gainOut = [A |-> UnitGain, B |-> UnitGain]
  /\ chunk = IdleChunk
  /\ genre = IdleGenre
  /\ meter = IdleMeter
  /\ analysis = IdleAnalysis

NextGain == AutoGainResolve

SpecGain == InitGain /\ [][NextGain]_vars

(* ----------------------------- sequencer ------------------------------ *)
\* Times of the sequencer are in whole seconds.
\* Durations of the filtered signal.
Durations == {0, 4, 33, 60}
\* Interval arguments: two options of the selector (GenreAnalyzer.tsx:382), the
\* auto value 0, a value above the minimum window and a negative one.
Intervals == {-10, 0, 10, 30, 45}

\* What the lag search and interpolation of detectBpmInChunk arrive at for a
\* chunk (part_000:303-356): no lag found, or a tempo before clamping, which
\* can lie below or above the range (a refined lag out of the searched lags).
Estimates ==
  {[found |-> FALSE, bpm |-> 0]} \cup {[found |-> TRUE, bpm |-> b] : b \in {-40, 120, 400}}

\* The estimator's tempo passed on without the clamp of part_000:359-361.
DetectBpmUnclamped(est) == IF ~est.found THEN 0 ELSE est.bpm

\* detectBpmInChunk's result for an estimate (part_000:336, 358-363): null,
\* written 0, or the tempo clamped to the range.
DetectBpmInChunk(est) ==
  IF ~est.found THEN 0
  ELSE IF est.bpm < MinBpm THEN MinBpm
  ELSE IF est.bpm > MaxBpm THEN MaxBpm
  ELSE est.bpm

\* step and windowSize of analyzeBpmFromData (part_000:230, 234)
StepOf(interval) == IF interval = 0 THEN AutoStep ELSE interval
WindowSize(interval) == Max(StepOf(interval), MinWindow)

\* startSample and endSample of the window at startTime (part_000:237-238)
StartSample(startTime) == startTime * SampleRate
EndSample(startTime, interval, dur) ==
  Min(startTime + WindowSize(interval), dur) * SampleRate

\* The points after a window when a failed window is never given a point
\* (the branch of part_000:251-257 left out).
PushPointNoCarry(points, startTime, bpm) ==
  IF bpm # 0 THEN Append(points, [time |-> startTime, bpm |-> bpm]) ELSE points

\* The points after the window whose estimate is bpm (part_000:246-257).
PushPoint(points, startTime, bpm) ==
  IF bpm # 0
    THEN Append(points, [time |-> startTime, bpm |-> bpm])
    ELSE IF Len(points) > 0
           THEN Append(points, [time |-> startTime, bpm |-> points[Len(points)].bpm])
           ELSE points

\* One pass of the loop of analyzeBpmFromData (part_000:236-258) for a window
\* whose chunk the estimator judges est.
AnalyzeWindow(est) ==
  LET a == analysis
      startSample == StartSample(a.startTime)
      endSample == EndSample(a.startTime, a.interval, a.duration)
      skipped == endSample - startSample < SampleRate * MinSegment
  IN /\ a.pc = "loop"
     /\ a.startTime < a.duration
     /\ Len(a.windows) < MaxWindows
     /\ analysis' =
          [a EXCEPT
             !.points = IF skipped THEN @
                        ELSE PushPoint(@, a.startTime, DetectBpmInChunk(est)),
             !.windows = Append(@, [start |-> a.startTime,
                                    samples |-> endSample - startSample,
                                    skipped |-> skipped,
                                    found |-> est.found]),
             !.startTime = @ + StepOf(a.interval)]
     /\ UNCHANGED <<viewVars, trackVars, deckVars, audio, transportVars, analyzerVars, playVars,
                    mixVars, guardVars, durTimers, cbVars, setTimeCalls, timeUpdated, stopped,
                    resolverVars, meter, genre, chunk>>

\* The loop ends and analyzeBpmFromData returns points (part_000:236, 260).
AnalyzeReturn ==
  /\ analysis.pc = "loop"
  /\ ~(analysis.startTime < analysis.duration)
  /\ analysis' = [analysis EXCEPT !.pc = "done"]
  /\ UNCHANGED <<viewVars, trackVars, deckVars, audio, transportVars, analyzerVars, playVars,
                 mixVars, guardVars, durTimers, cbVars, setTimeCalls, timeUpdated, stopped,
                 resolverVars, meter, genre, chunk>>

\* A call analyzeBpmFromData(data, sampleRate, duration, interval).
InitSeq ==
  /\ InitApp
  /\ dbIn = [A |-> 0, B |-> 0]
  /\ gainOut = [A |-> UnitGain, B |-> UnitGain]
  /\ chunk = IdleChunk
  /\ genre = IdleGenre
  /\ meter = IdleMeter
  /\ \E dur \in Durations : \E interval \in Intervals :
       analysis = [duration |-> dur, interval |-> interval, startTime |-> 0,
                   points |-> <<>>, windows |-> <<>>, pc |-> "loop"]

NextSeq ==
  \/ \E est \in Estimates : AnalyzeWindow(est)
  \/ AnalyzeReturn

\* The call runs on: a synchronous loop is not suspended.
SpecSeq == InitSeq /\ [][NextSeq]_vars /\ WF_vars(NextSeq)

(* ------------------------- crossfade arguments ------------------------ *)
\* Arguments of handleCrossfadeChange(value: number) (part_003:531): positions
\* of the crossfader and numbers outside its range, in hundredths.
PassedValues == CrossfadeValues \cup {-50, 150}

\* The comparator decks loaded once each, with handleCrossfadeChange called
\* on any number and difference mode switched on and off.
NextFade ==
  \/ \E id \in {"A", "B"} : \E f \in 1..NumFiles : FirstLoad(id) /\ HandleFileUpload(id, f)
  \/ \E d \in {"A", "B", "GA", "GB"} : DeckReady(d)
  \/ \E value \in PassedValues : HandleCrossfadeChange(value)
  \/ ToggleDiffMode

SpecFade == Init /\ [][NextFade]_vars

(* ------------------------------ estimator ----------------------------- *)
\* A sample or intermediate value that is not a number (IEEE NaN): a NaN
\* sample, or a read outside a typed array used in arithmetic.
NaN == -1000000
Times(a, b) == IF a = NaN \/ b = NaN THEN NaN ELSE a * b
Plus(a, b) == IF a = NaN \/ b = NaN THEN NaN ELSE a + b
\* a > b of two numbers: false when either is NaN
Greater(a, b) == a # NaN /\ b # NaN /\ a > b

\* Windows are held by the envelope value: DownsampleRatio samples of one
\* value v each, whose RMS (part_000:277-285) is |v|.
ChunkSamples == {0, 1, -3, NaN}
Chunks == UNION {[1..n -> ChunkSamples] : n \in 0..MaxEnvelope}
\* Sample rates: multiples of DownsampleRatio, so that envelopeRate is whole.
SampleRates == {DownsampleRatio, 4 * DownsampleRatio, 7 * DownsampleRatio}
EnvelopeRate(sampleRate) == sampleRate \div DownsampleRatio

\* envelope and onset (part_000:276-294), indexed from 0 as in the source;
\* a read past the end is undefined and counts as NaN.
EnvelopeAt(data, i) == IF data[i + 1] = NaN THEN NaN ELSE Abs(data[i + 1])
OnsetAt(data, i) ==
  IF i < 0 \/ i >= Len(data) THEN NaN
  ELSE IF i = 0 THEN 0
  ELSE LET diff == Plus(EnvelopeAt(data, i), Times(-1, EnvelopeAt(data, i - 1)))
       IN IF diff = NaN THEN NaN ELSE Max(0, diff)

\* The sum of onset[i] * onset[i + lag] for 0 <= i < envelopeLength - lag
\* (part_000:313-315, 340-346).
RECURSIVE CorrFrom(_, _, _)
CorrFrom(data, lag, i) ==
  IF i >= Len(data) - lag THEN 0
  ELSE Plus(Times(OnsetAt(data, i), OnsetAt(data, i + lag)), CorrFrom(data, lag, i + 1))
GetCorrAt(data, lag) == CorrFrom(data, lag, 0)

\* minLag and maxLag (part_000:303-304)
MinLag(rate) == (60 * rate) \div MaxBpm
MaxLag(rate) == (60 * rate) \div MinBpm

\* The Gaussian weight of a lag (part_000:324), in thousandths, for the
\* envelope rates 1, 4 and 7 and the lags searched at each; bpm is infinite at
\* lag 0 and the weight 0.
Weight(rate, lag) ==
  CASE rate = 1 -> <<0, 280>>[lag + 1]
    [] rate = 4 -> <<0, 121, 974, 703, 280>>[lag + 1]
    [] rate = 7 -> <<0, 2, 234, 817, 993, 777, 492, 280>>[lag + 1]

\* The search of the lags from lag on (part_000:310-331), with the best
\* weighted correlation (in thousandths) and lag so far.
RECURSIVE SearchLags(_, _, _, _, _)
SearchLags(data, rate, lag, maxWeightedCorr, bestLag) ==
  IF lag > MaxLag(rate) THEN bestLag
  ELSE LET weightedSum == Times(GetCorrAt(data, lag), Weight(rate, lag))
       IN IF Greater(weightedSum, maxWeightedCorr)
            THEN SearchLags(data, rate, lag + 1, weightedSum, lag)
            ELSE SearchLags(data, rate, lag + 1, maxWeightedCorr, bestLag)

\* The search started from a best correlation of 0 (part_000:306 with 0 for -1).
BestLagAboveZero(data, rate) == SearchLags(data, rate, MinLag(rate), 0, -1)

\* bestLag after the search (part_000:306-331)
BestLag(data, rate) == SearchLags(data, rate, MinLag(rate), InitialCorr * 1000, -1)

\* 60 * envelopeRate / refinedLag (part_000:337-357), rounded down, as a
\* fraction num / den of whole numbers; a refined lag of 0 gives +Infinity,
\* written as a tempo above every range.
Quotient(num, den) ==
  IF den = 0 THEN Pow10(6)
  ELSE IF den > 0 THEN num \div den
  ELSE (-num) \div (-den)

\* What the lag search and the interpolation arrive at for a window.
Estimate(data, sampleRate) ==
  LET rate == EnvelopeRate(sampleRate)
      bestLag == BestLag(data, rate)
      y1 == GetCorrAt(data, bestLag - 1)
      y2 == GetCorrAt(data, bestLag)
      y3 == GetCorrAt(data, bestLag + 1)
      denominator == Plus(Plus(y1, Times(-2, y2)), y3)
  IN IF bestLag = -1 THEN [found |-> FALSE, bpm |-> 0]
     ELSE IF denominator = NaN \/ denominator = 0
            THEN [found |-> TRUE, bpm |-> Quotient(60 * rate, bestLag)]
     ELSE [found |-> TRUE,
           bpm |-> Quotient(120 * rate * denominator,
                            2 * bestLag * denominator + y1 - y3)]

\* The call returns: null, written 0, or a tempo.
DetectChunk ==
  /\ chunk.pc = "call"
  /\ chunk' = [chunk EXCEPT !.result = DetectBpmInChunk(Estimate(chunk.data, chunk.sampleRate)),
                            !.pc = "done"]
  /\ UNCHANGED <<viewVars, trackVars, deckVars, audio, transportVars, analyzerVars, playVars,
                 mixVars, guardVars, durTimers, cbVars, setTimeCalls, timeUpdated, stopped,
                 resolverVars, analysis, meter, genre>>

\* A call detectBpmInChunk(data, sampleRate).
InitChunk ==
  /\ InitApp
  /\ dbIn = [A |-> 0, B |-> 0]
  /\ gainOut = [A |-> UnitGain, B |-> UnitGain]
  /\ analysis = IdleAnalysis
  /\ meter = IdleMeter
  /\ genre = IdleGenre
  /\ \E data \in Chunks : \E sampleRate \in SampleRates :
       chunk = [data |-> data, sampleRate |-> sampleRate, result |-> 0, pc |-> "call"]

NextChunk == DetectChunk

SpecChunk == InitChunk /\ [][NextChunk]_vars

(* --------------------------- loudness meter --------------------------- *)
\* Samples are in millionths of full scale, powers in their squares.  A
\* channel's data is held by the stride: of every run of Stride samples the
\* first, which the loop of part_000:146 reads, and the largest absolute
\* value of the others, which it steps over.
Strides ==
  {[read |-> 0, rest |-> 0], [read |-> 3, rest |-> 5], [read |-> -20, rest |-> 0],
   [read |-> 300, rest |-> 500]}

\* AudioBuffers: numberOfChannels >= 1 channels of one length (zero strides:
\* no samples).
Buffers == UNION {[1..c -> [1..n -> Strides]] : c \in 1..MaxChannels, n \in 0..MaxStrides}

RECURSIVE SumSquares(_)
SumSquares(data) ==
  IF data = <<>> THEN 0
  ELSE data[1].read * data[1].read + SumSquares(Tail(data))

RECURSIVE SumOver(_, _)
SumOver(f, n) == IF n = 0 THEN 0 ELSE f[n] + SumOver(f, n - 1)

\* 10 * Math.log10(num / den) - 120 in whole dB, rounded down: the level of a
\* mean-square power num / den given in squares of millionths.
Log10Db(num, den) ==
  LET tenTo(d) == RootTable[2 * (d % 10) + 1] * Pow10(d \div 10)
      below == {d \in 0..53 : tenTo(d) * den <= 1000 * num}
  IN (CHOOSE d \in below : \A e \in below : e <= d) - 120

\* calculateTrackLoudness with chanSum added to sumSq as it is, not divided
\* by count (part_000:151).
CalculateTrackLoudnessSummed(buffer) ==
  LET numChannels == Len(buffer)
      count == Len(buffer[1])
      num == SumOver([c \in 1..numChannels |-> SumSquares(buffer[c])], numChannels)
      den == numChannels
  IN IF num < RmsFloor * RmsFloor * den THEN LoudnessFloor ELSE Log10Db(num, den)

\* calculateTrackLoudness (part_000:134-164).  Every channel has the same
\* count, so sumSq / numChannels is the sum of all chanSum over
\* count * numChannels; rms < 0.00001 is avgPower < 0.00001^2.
CalculateTrackLoudness(buffer) ==
  LET numChannels == Len(buffer)
      count == Len(buffer[1])
      num == IF count > 0
               THEN SumOver([c \in 1..numChannels |-> SumSquares(buffer[c])], numChannels)
               ELSE 0
      den == IF count > 0 THEN count * numChannels ELSE numChannels
  IN IF num < RmsFloor * RmsFloor * den THEN LoudnessFloor ELSE Log10Db(num, den)

\* The call returns.
MeasureLoudness ==
  /\ meter.pc = "call"
  /\ meter' = [meter EXCEPT !.result = CalculateTrackLoudness(meter.buffer), !.pc = "done"]
  /\ UNCHANGED <<viewVars, trackVars, deckVars, audio, transportVars, analyzerVars, playVars,
                 mixVars, guardVars, durTimers, cbVars, setTimeCalls, timeUpdated, stopped,
                 resolverVars, analysis, genre, chunk>>

\* A call calculateTrackLoudness(buffer).
InitMeter ==
  /\ InitApp
  /\ dbIn = [A |-> 0, B |-> 0]
  /\ gainOut = [A |-> UnitGain, B |-> UnitGain]
  /\ chunk = IdleChunk
  /\ genre = IdleGenre
  /\ analysis = IdleAnalysis
  /\ \E b \in Buffers : meter = [buffer |-> b, result |-> 0, pc |-> "call"]

NextMeter == MeasureLoudness

SpecMeter == InitMeter /\ [][NextMeter]_vars

(* --------------------------- genre analyzer --------------------------- *)
\* { ...t, changes }
Spread(t, changes) == [k \in DOMAIN t |-> IF k \in DOMAIN changes THEN changes[k] ELSE t[k]]

\* setTracks(prev => prev.map(t => t.id === trackId ? { ...t, changes } : t))
MapTrack(tracks, trackId, changes) ==
  [i \in 1..Len(tracks) |->
     IF tracks[i].id = trackId THEN Spread(tracks[i], changes) ELSE tracks[i]]

\* tracks.find(t => t.id === trackId) has a result
HasTrack(tracks, trackId) == \E i \in 1..Len(tracks) : tracks[i].id = trackId
FindTrack(tracks, trackId) ==
  tracks[CHOOSE i \in 1..Len(tracks) : tracks[i].id = trackId]

RECURSIVE NewTracks(_, _)
NewTracks(first, n) ==
  IF n = 0 THEN <<>>
  ELSE <<[id |-> first, status |-> "decoding", audioBuffer |-> FALSE, error |-> "",
          aiAnalysis |-> FALSE]>> \o NewTracks(first + 1, n - 1)

\* addFiles (GenreAnalyzer.tsx:121-136) for n files, with processTrackLocally
\* up to its await for each (GenreAnalyzer.tsx:78-84).  Ids are taken as fresh.
AddFiles(n) ==
  /\ genre.nAdded + n <= MaxGenreFiles
  /\ genre' = [genre EXCEPT
                 !.tracks = @ \o NewTracks(genre.nAdded + 1, n),
                 !.decodes = @ \cup (genre.nAdded + 1)..(genre.nAdded + n),
                 !.nAdded = @ + n]
  /\ UNCHANGED <<viewVars, trackVars, deckVars, audio, transportVars, analyzerVars, playVars,
                 mixVars, guardVars, durTimers, cbVars, setTimeCalls, timeUpdated, stopped,
                 resolverVars, analysis, meter, chunk>>

\* decodeAudioData resolves (GenreAnalyzer.tsx:86-93).
DecodeDone(trackId) ==
  LET decoded == [status |-> "idle", audioBuffer |-> TRUE]
  IN /\ trackId \in genre.decodes
     /\ genre' = [genre EXCEPT !.decodes = @ \ {trackId},
                               !.tracks = MapTrack(@, trackId, decoded)]
     /\ UNCHANGED <<viewVars, trackVars, deckVars, audio, transportVars, analyzerVars, playVars,
                    mixVars, guardVars, durTimers, cbVars, setTimeCalls, timeUpdated, stopped,
                    resolverVars, analysis, meter, chunk>>

\* The catch of processTrackLocally marking every track of the list.
DecodeFailMarksAll(trackId) ==
  LET failed == [status |-> "error", error |-> "Failed to decode audio"]
  IN /\ trackId \in genre.decodes
     /\ genre' = [genre EXCEPT !.decodes = @ \ {trackId},
                               !.tracks = [i \in 1..Len(@) |-> Spread(@[i], failed)]]
     /\ UNCHANGED <<viewVars, trackVars, deckVars, audio, transportVars, analyzerVars, playVars,
                    mixVars, guardVars, durTimers, cbVars, setTimeCalls, timeUpdated, stopped,
                    resolverVars, analysis, meter, chunk>>

\* decodeAudioData rejects (GenreAnalyzer.tsx:95-100).
DecodeFail(trackId) ==
  LET failed == [status |-> "error", error |-> "Failed to decode audio"]
  IN /\ trackId \in genre.decodes
     /\ genre' = [genre EXCEPT !.decodes = @ \ {trackId},
                               !.tracks = MapTrack(@, trackId, failed)]
     /\ UNCHANGED <<viewVars, trackVars, deckVars, audio, transportVars, analyzerVars, playVars,
                    mixVars, guardVars, durTimers, cbVars, setTimeCalls, timeUpdated, stopped,
                    resolverVars, analysis, meter, chunk>>

\* handleAiAnalysis up to its await (GenreAnalyzer.tsx:138-147), for a track
\* whose button is enabled (GenreAnalyzer.tsx:312).
HandleAiAnalysis(trackId) ==
  LET started == [status |-> "analyzing_ai"]
  IN /\ HasTrack(genre.tracks, trackId)
     /\ FindTrack(genre.tracks, trackId).status \notin {"decoding", "analyzing_ai"}
     /\ FindTrack(genre.tracks, trackId).audioBuffer
     /\ genre' = [genre EXCEPT !.aiCalls = @ \cup {trackId},
                               !.tracks = MapTrack(@, trackId, started)]
     /\ UNCHANGED <<viewVars, trackVars, deckVars, audio, transportVars, analyzerVars, playVars,
                    mixVars, guardVars, durTimers, cbVars, setTimeCalls, timeUpdated, stopped,
                    resolverVars, analysis, meter, chunk>>

\* analyzeTrackWithGemini resolves (GenreAnalyzer.tsx:148-150).
AiDone(trackId) ==
  LET done == [status |-> "done", aiAnalysis |-> TRUE]
  IN /\ trackId \in genre.aiCalls
     /\ genre' = [genre EXCEPT !.aiCalls = @ \ {trackId},
                               !.tracks = MapTrack(@, trackId, done)]
     /\ UNCHANGED <<viewVars, trackVars, deckVars, audio, transportVars, analyzerVars, playVars,
                    mixVars, guardVars, durTimers, cbVars, setTimeCalls, timeUpdated, stopped,
                    resolverVars, analysis, meter, chunk>>

\* analyzeTrackWithGemini rejects (GenreAnalyzer.tsx:151-160).
AiFail(trackId) ==
  LET failed == [status |-> "idle", error |-> "AI Analysis failed"]
  IN /\ trackId \in genre.aiCalls
     /\ genre' = [genre EXCEPT !.aiCalls = @ \ {trackId},
                               !.tracks = MapTrack(@, trackId, failed)]
     /\ UNCHANGED <<viewVars, trackVars, deckVars, audio, transportVars, analyzerVars, playVars,
                    mixVars, guardVars, durTimers, cbVars, setTimeCalls, timeUpdated, stopped,
                    resolverVars, analysis, meter, chunk>>

\* removeTrack (GenreAnalyzer.tsx:163-165)
RemoveTrack(trackId) ==
  /\ HasTrack(genre.tracks, trackId)
  /\ genre' = [genre EXCEPT !.tracks = SelectSeq(@, LAMBDA t : t.id # trackId)]
  /\ UNCHANGED <<viewVars, trackVars, deckVars, audio, transportVars, analyzerVars, playVars,
                 mixVars, guardVars, durTimers, cbVars, setTimeCalls, timeUpdated, stopped,
                 resolverVars, analysis, meter, chunk>>

\* The genre tab: files added, their decodes and AI calls, tracks removed.
NextGenre ==
  \/ \E n \in 1..2 : AddFiles(n)
  \/ \E trackId \in 1..MaxGenreFiles :
       \/ DecodeDone(trackId)
       \/ DecodeFail(trackId)
       \/ HandleAiAnalysis(trackId)
       \/ AiDone(trackId)
       \/ AiFail(trackId)
       \/ RemoveTrack(trackId)

SpecGenre == Init /\ [][NextGenre]_vars

(* --------------------------- deck reloads ----------------------------- *)
\* The comparator decks with replacement tracks: loads of decks A and B, more
\* than one per deck, their ready events, and leaving and re-entering the tab.
NextLoads ==
  \/ \E mode \in {"comparator", "genre"} : HandleTabChange(mode)
  \/ DurationTimerFire
  \/ \E id \in {"A", "B"} : \E f \in 1..NumFiles : HandleFileUpload(id, f)
  \/ \E d \in {"A", "B", "GA", "GB"} : DeckReady(d)

SpecLoads == Init /\ [][NextLoads]_vars

(* -------------------------- analyzer claims --------------------------- *)
\* C1: when the render of a track that is no longer the track loaded in slot C
\* resolves, its result is written neither to the filtered cache nor to the
\* tempo timeline.
C1_StaleRenderDiscarded ==
  [][\A r \in renders :
       (RenderComplete(r) /\ r.track # track["C"])
         => (filteredCache' # r.track /\ bpmData'.src # r.track)]_vars

\* C2: an upload into slot C leaves the cache and the timeline empty, and a
\* non-empty cache always holds the filtered signal of the track loaded in C.
C2_CacheHoldsCurrentTrack ==
  [][/\ HandleFileUpload("C", nLoads["C"] + 1) => (filteredCache' = 0 /\ bpmData' = NoData)
     /\ filteredCache' # 0 => filteredCache' = track'["C"]]_vars

\* C3: no interval change ever starts a filter render, so the filter runs once
\* per load of slot C however the interval is changed.
C3_IntervalChangeNeverRenders ==
  [][\A i \in IntervalOptions :
       HandleBpmIntervalChange(i) => (nRenders' = nRenders /\ renders' = renders)]_vars

(* -------------------------- transport claims -------------------------- *)
\* C4: while playing in the comparator with no guard set, a time update from
\* the master deck (A if track A is loaded, else B) makes exactly one setTime
\* call on every other active deck whose time differs from the master's by
\* more than the drift threshold, and none on the others.
C4_DriftedSlavesCorrected ==
  [][\A source \in {"A", "B"} :
       (/\ HandleTimeUpdate(source)
        /\ activeTab = "comparator"
        /\ isPlaying
        /\ ~isSeekingRef
        /\ ~isSyncingRef
        /\ source = (IF track["A"] # 0 THEN "A" ELSE "B")
        /\ wsRef[source] = "live")
       => \A s \in ActiveInstances("comparator") \ {source} :
            setTimeCalls'[s] =
              IF Abs(RefTime(source) - RefTime(s)) > DriftThreshold THEN 1 ELSE 0]_vars

\* C6: a time update that arrives while the seeking guard is set makes no
\* setTime call, moves no deck, sets no syncing guard and leaves the shared
\* currentTime at the position the seek chose.
C6_SeekGuardSuppressesUpdates ==
  [][\A source \in {"A", "B"} :
       (HandleTimeUpdate(source) /\ isSeekingRef)
         => /\ currentTime' = currentTime
            /\ deckTime' = deckTime
            /\ setTimeCalls' = NoCalls
            /\ isSyncingRef' = isSyncingRef
            /\ syncTimers' = syncTimers]_vars

\* C6 witness: the master deck B has reported a time other than the one the
\* seek chose while the seeking guard was set, and currentTime has kept the
\* seek's position.
C6_Witness ==
  /\ timeUpdated
  /\ isSeekingRef
  /\ seekTimers > 0
  /\ ~cbTrackA
  /\ deckDecoded["B"] # 0
  /\ currentTime > 0
  /\ deckTime["B"] # currentTime

(* ---------------------------- mixer claims ---------------------------- *)
\* C7: in the comparator with differential mode on, a deck A that is ready is
\* routed through its gain node with gain +gainA and a deck B that is ready
\* with gain -gainB, whatever the crossfade and the auto-gain setting.
C7_DiffModeOutput ==
  (activeTab = "comparator" /\ isDiffMode)
    => LET gA == IF autoGain THEN trackGains.A ELSE UnitGain
           gB == IF autoGain THEN trackGains.B ELSE UnitGain
       IN /\ wsRef["A"] = "live"
               => /\ audio["A"].graph
                  /\ audio["A"].gain = CrossfadeOne * gA
                  /\ OutVolume(audio["A"]) = CrossfadeOne * gA
                  /\ OutPhase(audio["A"]) = 1
          /\ wsRef["B"] = "live"
               => /\ audio["B"].graph
                  /\ audio["B"].gain = -(CrossfadeOne * gB)
                  /\ OutVolume(audio["B"]) = CrossfadeOne * gB
                  /\ OutPhase(audio["B"]) = -1

\* C7 witness: differential mode is on with both decks ready, auto-gain on
\* with deck A attenuated, and the crossfader away from the middle.
C7_Witness ==
  /\ activeTab = "comparator"
  /\ isDiffMode
  /\ autoGain
  /\ wsRef["A"] = "live"
  /\ wsRef["B"] = "live"
  /\ trackGains.A < UnitGain
  /\ crossfade = 25
  /\ audio["B"].gain = -FullVolume

\* C8: in the comparator with differential mode off, a deck A that is ready
\* outputs (1 - crossfade) * gainA and a deck B that is ready outputs
\* crossfade * gainB, both with phase +1, also on decks routed through a gain
\* node by an earlier differential mode; at crossfade 0.5 without auto-gain
\* both output half of full volume.
C8_NormalModeOutput ==
  (activeTab = "comparator" /\ ~isDiffMode)
    => LET gA == IF autoGain THEN trackGains.A ELSE UnitGain
           gB == IF autoGain THEN trackGains.B ELSE UnitGain
       IN /\ wsRef["A"] = "live"
               => /\ OutVolume(audio["A"]) = (CrossfadeOne - crossfade) * gA
                  /\ OutPhase(audio["A"]) = 1
          /\ wsRef["B"] = "live"
               => /\ OutVolume(audio["B"]) = crossfade * gB
                  /\ OutPhase(audio["B"]) = 1
          /\ (crossfade = InitCrossfade /\ ~autoGain)
               => \A d \in {"A", "B"} :
                    wsRef[d] = "live" => 2 * OutVolume(audio[d]) = FullVolume

\* C8 witness: differential mode is off again after it routed both decks
\* through gain nodes, with auto-gain on, deck A attenuated and the crossfader
\* at a quarter.
C8_Witness ==
  /\ activeTab = "comparator"
  /\ ~isDiffMode
  /\ autoGain
  /\ wsRef["A"] = "live"
  /\ wsRef["B"] = "live"
  /\ audio["A"].graph
  /\ audio["B"].graph
  /\ trackGains.A < UnitGain
  /\ crossfade = 25
  /\ audio["B"].gain = 25 * UnitGain

\* C9: the two ghost decks have volume 0 and no gain node in every state.
C9_GhostsSilent ==
  \A d \in Ghosts : audio[d].volume = 0 /\ ~audio[d].graph /\ OutVolume(audio[d]) = 0

\* C9 witness: both ghost decks are ready and playing with differential mode
\* and auto-gain on, the crossfader at one end, after the tab was left and
\* entered again.
C9_Witness ==
  /\ activeTab = "comparator"
  /\ nTabs >= 2
  /\ \A d \in Ghosts : wsRef[d] = "live" /\ deckPlaying[d]
  /\ isDiffMode
  /\ autoGain
  /\ crossfade = CrossfadeOne
  /\ isPlaying

C11_UnitGainsWhileUndecoded ==
  (activeTab = "comparator" /\ (deckDecoded["A"] = 0 \/ deckDecoded["B"] = 0))
    => trackGains = [A |-> UnitGain, B |-> UnitGain]

\* C12: in the comparator, once decks A and B are both ready and neither is
\* decoding, the gain pair is the resolver's result for the loudness of the
\* two buffers they hold.
C12_GainsFollowDecodedBuffers ==
  (/\ activeTab = "comparator"
   /\ \A d \in {"A", "B"} : wsRef[d] = "live" /\ deckLoading[d] = 0 /\ deckDecoded[d] # 0)
    => trackGains = ResolveGains(TrackLoudness(deckDecoded["A"]),
                                 TrackLoudness(deckDecoded["B"]))

AtRest ==
  /\ ~isPlaying
  /\ currentTime = 0
  /\ \A d \in LiveInstances(activeTab) : ~deckPlaying[d] /\ deckTime[d] = 0

\* C14: stop, in any state, halts every active deck at 0, clears isPlaying and
\* sets currentTime to 0; from then on currentTime stays 0, whatever happens,
\* until play is pressed or a seek is made.
C14_StopResetsAndHolds ==
  [][/\ HandleStop => AtRest'
     /\ (AtRest /\ isPlaying' = isPlaying /\ isSeekingRef' = isSeekingRef
                /\ seekTimers' <= seekTimers)
          => AtRest']_vars

\* C14 witness: stop was pressed after the decks had played on from a position
\* other than 0: everything is back at 0.
C14_Witness ==
  /\ stopped
  /\ nTicks > 0
  /\ AtRest
  /\ \A d \in {"A", "B", "GA", "GB"} : wsRef[d] = "live"

\* C15: a seek leaves isPlaying as it is, and right after it every active
\* deck is at the absolute time the seek stored in currentTime.
C15_SeekAlignsAllDecks ==
  [][\A k \in 0..SeekSteps :
       HandleSeek(k)
         => /\ isPlaying' = isPlaying
            /\ \A d \in LiveInstances(activeTab) : deckTime'[d] = currentTime']_vars

(* ------------------------------ sequencer ----------------------------- *)
Returned == analysis.pc = "done"

\* C16: the timeline analyzeBpmFromData returns has strictly increasing time
\* offsets and every bpm of it lies in [55, 190].
C16_TimelineIncreasingAndInRange ==
  Returned =>
    /\ \A i \in 1..Len(analysis.points) :
         analysis.points[i].bpm >= MinBpm /\ analysis.points[i].bpm <= MaxBpm
    /\ \A i \in 1..(Len(analysis.points) - 1) :
         analysis.points[i].time < analysis.points[i + 1].time

\* A returned timeline of three points, one clamped up and one clamped down.
C16_Witness ==
  /\ Returned
  /\ Len(analysis.points) >= 3
  /\ \E i, j \in 1..Len(analysis.points) :
       analysis.points[i].bpm = MinBpm /\ analysis.points[j].bpm = MaxBpm

\* C17: a window the estimator has no estimate for gets a point at its start
\* with the bpm of the point before it when there is one, and no point when
\* there is none.
C17_CarryForward ==
  [][\A est \in Estimates :
       (/\ AnalyzeWindow(est)
        /\ ~est.found
        /\ ~analysis'.windows[Len(analysis'.windows)].skipped)
         => IF Len(analysis.points) > 0
              THEN analysis'.points =
                     Append(analysis.points,
                            [time |-> analysis.startTime,
                             bpm |-> analysis.points[Len(analysis.points)].bpm])
              ELSE analysis'.points = analysis.points]_vars

\* The first window failed and left no point, a later window failed and
\* carries the bpm of the point before it.
C17_Witness ==
  /\ Len(analysis.windows) >= 3
  /\ ~analysis.windows[1].found /\ ~analysis.windows[1].skipped
  /\ analysis.windows[2].found
  /\ ~analysis.windows[3].found /\ ~analysis.windows[3].skipped
  /\ Len(analysis.points) = 2
  /\ analysis.points[1].time = analysis.windows[2].start
  /\ analysis.points[2].time = analysis.windows[3].start
  /\ analysis.points[2].bpm = analysis.points[1].bpm

\* The windows considered so far are the first multiples of the step, each
\* inside [0, duration), of length min(max(step, 30), duration - start), and
\* skipped exactly when shorter than 5 seconds.
WindowsAsSpecified ==
  LET a == analysis
      step == StepOf(a.interval)
  IN \A i \in 1..Len(a.windows) :
       LET w == a.windows[i]
       IN /\ w.start = (i - 1) * step
          /\ w.start >= 0 /\ w.start < a.duration
          /\ w.samples = Min(Max(step, MinWindow), a.duration - w.start) * SampleRate
          /\ w.skipped <=> (w.samples < MinSegment * SampleRate)

\* At return every multiple of the step in [0, duration) was considered, and
\* when every window had an estimate the points are those of the windows not
\* skipped.
ReturnAsSpecified ==
  LET a == analysis
      step == StepOf(a.interval)
      kept == {i \in 1..Len(a.windows) : ~a.windows[i].skipped}
  IN Returned =>
       /\ Len(a.windows) * step >= a.duration
       /\ (\A i \in 1..Len(a.windows) : a.windows[i].found)
            => /\ Len(a.points) = Cardinality(kept)
               /\ \A i \in kept : \E j \in 1..Len(a.points) :
                    a.points[j].time = a.windows[i].start
       /\ (/\ a.duration = 60 /\ step = 30
           /\ \A i \in 1..Len(a.windows) : a.windows[i].found)
            => /\ Len(a.points) = 2
               /\ a.points[1].time = 0 /\ a.points[2].time = 30

\* C18: analyzeBpmFromData considers exactly the window starts k * step in
\* [0, duration), each of length min(max(step, 30), duration - start), skips
\* exactly those under 5 seconds, and returns 2 points at 0 s and 30 s for a
\* 60 s signal with step 30 whose windows all have an estimate.
C18_WindowsOfTheTimeline == WindowsAsSpecified /\ ReturnAsSpecified

\* C20: analyzeBpmFromData returns a timeline for every interval and every
\* duration: every pass of its loop moves the window start forward, towards
\* the duration, and the call ends with the return of the timeline.
C20_AlwaysReturns ==
  /\ [][\A est \in Estimates :
          AnalyzeWindow(est) => analysis'.startTime > analysis.startTime]_vars
  /\ <>Returned

(* ------------------------- crossfade arguments ------------------------ *)
\* C19: whatever value handleCrossfadeChange is called with, the stored
\* crossfade is within [0, 1] and the volume applied to deck A and to deck B
\* is within [0, 1].
C19_CrossfadeClamped ==
  /\ crossfade >= 0 /\ crossfade <= CrossfadeOne
  /\ \A d \in {"A", "B"} :
       /\ audio[d].volume >= 0 /\ audio[d].volume <= FullVolume
       /\ Abs(audio[d].gain) <= FullVolume

(* --------------------------- loudness meter --------------------------- *)
\* The largest absolute sample of a buffer, read or stepped over.
PeakSample(buffer) ==
  LET peaksOf(c) == UNION {{Abs(buffer[c][i].read), buffer[c][i].rest} :
                             i \in 1..Len(buffer[c])}
      peaks == {0} \cup UNION {peaksOf(c) : c \in 1..Len(buffer)}
  IN CHOOSE p \in peaks : \A q \in peaks : q <= p

\* 20 * log10 of the largest absolute sample, for a buffer that is not all zero.
PeakDb(buffer) == Log10Db(PeakSample(buffer) * PeakSample(buffer), 1)

Measured == meter.pc = "done"

\* The claim as it stands: the result is at least -100 and at most
\* 20 * log10 of the largest absolute sample, and -100 for an all-zero signal.
C21_LoudnessBoundedByPeak ==
  Measured =>
    /\ meter.result >= LoudnessFloor
    /\ PeakSample(meter.buffer) > 0 => meter.result <= PeakDb(meter.buffer)
    /\ PeakSample(meter.buffer) = 0 => meter.result = LoudnessFloor

\* C21: calculateTrackLoudness returns a value that is at least -100 and at
\* most the larger of -100 and 20 * log10 of the largest absolute sample; an
\* all-zero signal returns exactly -100.
C21_LoudnessBoundedByPeakOrFloor ==
  Measured =>
    /\ meter.result >= LoudnessFloor
    /\ PeakSample(meter.buffer) > 0
         => meter.result <= Max(LoudnessFloor, PeakDb(meter.buffer))
    /\ PeakSample(meter.buffer) = 0 => meter.result = LoudnessFloor

\* A two-channel signal above the floor whose level is below its peak's.
C21_Witness ==
  /\ Measured
  /\ Len(meter.buffer) = 2 /\ Len(meter.buffer[1]) = 2
  /\ meter.result > LoudnessFloor
  /\ meter.result < PeakDb(meter.buffer)

(* --------------------------- failed analyses -------------------------- *)
\* C22: when the filter render of the loaded track's analysis fails, the tempo
\* timeline is empty afterwards, the filtered cache is as it was, and the
\* analyzing flag is cleared.
C22_FailedRenderLeavesNothing ==
  [][\A r \in renders :
       (RenderFail(r) /\ r.track = track["C"])
         => /\ bpmData' = NoData
            /\ filteredCache' = filteredCache
            /\ ~isAnalyzing']_vars

(* --------------------------- genre analyzer --------------------------- *)
\* The record of a track that failed to decode.
DecodeFailed(t) == t.status = "error" /\ t.error = "Failed to decode audio" /\ ~t.audioBuffer

\* C23: when the decode of a file fails, that track and no other becomes a
\* track in status 'error' with an error message and no decoded buffer, no
\* analysis cache or timeline changes, the failed track stays as it is while
\* it is listed, and no AI analysis runs for it.
C23_DecodeFailureMarksOneTrack ==
  /\ [][\A trackId \in 1..MaxGenreFiles :
          DecodeFail(trackId)
            => /\ Len(genre'.tracks) = Len(genre.tracks)
               /\ \A i \in 1..Len(genre.tracks) :
                    IF genre.tracks[i].id = trackId
                      THEN DecodeFailed(genre'.tracks[i]) /\ genre'.tracks[i].id = trackId
                      ELSE genre'.tracks[i] = genre.tracks[i]
               /\ filteredCache' = filteredCache /\ bpmData' = bpmData
               /\ genre'.aiCalls = genre.aiCalls]_vars
  /\ [][\A i \in 1..Len(genre.tracks) :
          genre.tracks[i].status = "error"
            => /\ genre.tracks[i].id \notin genre'.aiCalls
               /\ \A j \in 1..Len(genre'.tracks) :
                    genre'.tracks[j].id = genre.tracks[i].id
                      => genre'.tracks[j] = genre.tracks[i]]_vars

\* A track failed to decode while another track had been analysed and a third
\* is being analysed.
C23_Witness ==
  /\ Len(genre.tracks) = 3
  /\ \E i, j, k \in 1..3 :
       /\ DecodeFailed(genre.tracks[i])
       /\ genre.tracks[j].status = "done"
       /\ genre.tracks[k].status = "analyzing_ai"

(* --------------------------- drift correction ------------------------- *)
\* The master deck: A when a track is loaded in slot A, else B.
MasterDeck == IF track["A"] # 0 THEN "A" ELSE "B"

\* A slave deck is more than the threshold away from the live master while
\* playing in the comparator.
DriftWhilePlaying ==
  /\ activeTab = "comparator"
  /\ isPlaying
  /\ wsRef[MasterDeck] = "live"
  /\ Drifted(MasterDeck, "comparator") # {}

\* C24: while playing in the comparator, a slave deck that has drifted from
\* the master by more than the threshold is eventually at the master's time
\* again: a master time update that finds no guard set leaves no slave
\* drifted, and every drift is followed by a state without drift.
C24_DriftEventuallyCorrected ==
  /\ [][(/\ HandleTimeUpdate(MasterDeck)
         /\ DriftWhilePlaying
         /\ ~isSeekingRef /\ ~isSyncingRef)
          => Drifted(MasterDeck, "comparator")' = {}]_vars
  /\ DriftWhilePlaying ~> ~DriftWhilePlaying

(* ------------------------------ routing ------------------------------- *)
\* C25: a deck becomes routed through a gain node only as deck A or B of the
\* comparator in differential mode (the calls with forced routing or phase
\* -1), a routed deck stays routed for as long as it is mounted, whatever is
\* called on it later, and a deck that is not routed has no gain and no
\* negative volume.
C25_RoutingMonotone ==
  /\ [][\A d \in Decks :
          /\ (~audio[d].graph /\ audio'[d].graph)
               => /\ d \in {"A", "B"}
                  /\ activeTab' = "comparator"
                  /\ isDiffMode'
                  /\ wsRef'[d] = "live"
          /\ (audio[d].graph /\ activeTab' = activeTab) => audio'[d].graph]_vars
  /\ [](\A d \in Decks : ~audio[d].graph => (audio[d].volume >= 0 /\ audio[d].gain = 0))

\* Deck A was routed by differential mode, which is off again; deck B became
\* ready after that and is not routed; the crossfader has been moved since.
C25_Witness ==
  /\ activeTab = "comparator"
  /\ ~isDiffMode
  /\ audio["A"].graph
  /\ wsRef["B"] = "live"
  /\ ~audio["B"].graph
  /\ crossfade = 25
  /\ audio["A"].gain = 75 * UnitGain
  /\ audio["B"].volume = 25 * UnitGain

(* ------------------------------- master ------------------------------- *)
\* C26: in the comparator a time update from a deck other than the master (A
\* when a track is loaded in slot A, else B) changes neither the shared
\* currentTime nor any deck's position, and no time update issues a setTime
\* while isPlaying is false.
C26_OnlyMasterDrivesTime ==
  [][\A source \in {"A", "B"} :
       (HandleTimeUpdate(source) /\ activeTab = "comparator")
         => /\ source # MasterDeck
                 => (currentTime' = currentTime /\ setTimeCalls' = NoCalls)
            /\ ~isPlaying => setTimeCalls' = NoCalls]_vars

(* ----------------------------- seek guard ----------------------------- *)
\* C27: the seeking guard is set for as long as the 100 ms window of any seek
\* is open, that of the most recent seek included: the timer of an earlier
\* seek does not clear it.
C27_GuardCoversLastSeek == seekTimers > 0 => isSeekingRef

(* --------------------------- analyzing flag --------------------------- *)
\* C28: isAnalyzing is true exactly in the states in which a filter render
\* started by initialTrackAnalysis has not settled.
C28_AnalyzingWhileRendering == isAnalyzing <=> renders # {}

(* ------------------------------ estimator ----------------------------- *)
Detected == chunk.pc = "done"
FiniteSamples(data) == \A i \in 1..Len(data) : data[i] # NaN

\* C29: for a window of finite samples and a positive sample rate
\* detectBpmInChunk returns a tempo, in [55, 190], and never null, so that the
\* sequencer pushes a point of its own for the window; a silent window is no
\* exception.
C29_EstimatorAlwaysAnswers ==
  (Detected /\ FiniteSamples(chunk.data))
    => /\ chunk.result # 0
       /\ chunk.result >= MinBpm /\ chunk.result <= MaxBpm
       /\ BestLag(chunk.data, EnvelopeRate(chunk.sampleRate)) >= 0
       /\ \A points \in {<<>>, <<[time |-> 0, bpm |-> 100]>>} :
            PushPoint(points, 30, chunk.result)
              = Append(points, [time |-> 30, bpm |-> chunk.result])

\* A silent window of full length has got a tempo.
C29_Witness ==
  /\ Detected
  /\ Len(chunk.data) = MaxEnvelope
  /\ \A i \in 1..Len(chunk.data) : chunk.data[i] = 0
  /\ chunk.result = MaxBpm

(* --------------------------- shared duration -------------------------- *)
\* The longest track decoded in decks A and B.
LoadedDuration == Max(DeckDuration("A"), DeckDuration("B"))
AllLoadsReady == \A d \in Decks : deckLoading[d] = 0

\* C30: in the comparator, once the loads and replacements made have become
\* ready, the shared duration is the longest duration of the tracks now in the
\* decks, and the current time lies between 0 and that duration.
C30_DurationOfLoadedMaterial ==
  (activeTab = "comparator" /\ AllLoadsReady)
    => /\ duration = LoadedDuration
       /\ currentTime >= 0 /\ currentTime <= LoadedDuration

=============================================================================
